---- MODULE Spec2Model ----
(***************************************************************************)
(* Model of run_quant_analysis (src/analysis.py): the quantitative         *)
(* analysis pipeline of the equity dashboard.  One call is a sequence of   *)
(* stages (risk, trend, valuation, verdict, time machine, packaging); each *)
(* stage is one action, and the locals of the function are the variables.  *)
(*                                                                         *)
(* Numbers.  Python/numpy floats are modelled as exact values:             *)
(*   [k |-> "num", n, d]   the rational n/d (d > 0, lowest terms)          *)
(*   [k |-> "nan"]         NaN          [k |-> "inf"]  +inf / -inf (n = +-1)*)
(*   [k |-> "none"]        Python None                                     *)
(*   [k |-> "sqrt", n, d]  the square root of n/d   (std deviation)        *)
(*   [k |-> "root12", n, d] the 12th root of n/d    (x ** (1/12))          *)
(* A price series is a run-length encoded column: a sequence of            *)
(* <<count, price>> runs; row i of the frame has date first + i - 1.       *)
(***************************************************************************)
EXTENDS Integers, Sequences, FiniteSets, TLC

VARIABLES
    data,             \* the bundle handed to run_quant_analysis (or None)
    pc,               \* position inside run_quant_analysis
    beta, volatility, expected_return,
    curr_price, sma_50, sma_200, trend, trend_desc,
    target_price, upside, verdict,
    future,           \* fut_1mo, fut_6mo, fut_1yr, fut_5yr
    result,           \* the returned dictionary (or None)
    exc,              \* the exception the call ended with ("" = none)
    previous,         \* what the previous call on this bundle returned
    provider,         \* what each request to the data provider answers
    fetch             \* get_raw_data: its position, locals and return value

vars == <<data, pc, beta, volatility, expected_return, curr_price, sma_50,
          sma_200, trend, trend_desc, target_price, upside, verdict, future,
          result, exc, previous, provider, fetch>>

fetchVars == <<provider, fetch>>

----------------------------------------------------------------------------
\* Bounds of the model.

\* Valid closing prices are 1..MaxPrice.
MaxPrice == 3

\* Analyst targets are 1..MaxTarget.
MaxTarget == 4

\* Series lengths lie within Slack of each length threshold of the code.
Slack == 1

----------------------------------------------------------------------------
\* Program constants.

SMA_FAST == 50
SMA_SLOW == 200
DAYS_1MO == 21
DAYS_6MO == 126
DAYS_1YR == 252
DAYS_5YR == 1260
TRADING_DAYS == 252

----------------------------------------------------------------------------
\* Values.

Num(n, d) == [k |-> "num", n |-> n, d |-> d]
NaN == [k |-> "nan", n |-> 0, d |-> 1]
PosInf == [k |-> "inf", n |-> 1, d |-> 1]
NegInf == [k |-> "inf", n |-> -1, d |-> 1]
None == [k |-> "none", n |-> 0, d |-> 1]

Abs(x) == IF x < 0 THEN -x ELSE x

RECURSIVE GCD(_, _)
GCD(a, b) == IF b = 0 THEN a ELSE GCD(b, a % b)

\* n/d in lowest terms with a positive denominator (d # 0).
Frac(n, d) ==
    LET g == GCD(Abs(n), Abs(d))
        s == IF d < 0 THEN -1 ELSE 1
    IN  Num((s * n) \div g, (s * d) \div g)

IsNum(x) == x.k = "num"

\* Float arithmetic: NaN propagates, a finite value divided by zero is an
\* infinity (numpy scalars warn, they do not raise).
Neg(x) == IF x.k \in {"num", "inf"} THEN [x EXCEPT !.n = -x.n] ELSE x

Add(x, y) ==
    IF x.k = "nan" \/ y.k = "nan" THEN NaN
    ELSE IF x.k = "inf" /\ y.k = "inf" THEN (IF x.n = y.n THEN x ELSE NaN)
    ELSE IF x.k = "inf" THEN x
    ELSE IF y.k = "inf" THEN y
    ELSE LET g == GCD(x.d, y.d)
         IN  Frac(x.n * (y.d \div g) + y.n * (x.d \div g), (x.d \div g) * y.d)

Sub(x, y) == Add(x, Neg(y))

Sign(i) == IF i > 0 THEN 1 ELSE IF i < 0 THEN -1 ELSE 0

Mul(x, y) ==
    IF x.k = "nan" \/ y.k = "nan" THEN NaN
    ELSE IF x.k = "inf" \/ y.k = "inf"
         THEN (IF x.n = 0 \/ y.n = 0 THEN NaN
               ELSE IF Sign(x.n) = Sign(y.n) THEN PosInf ELSE NegInf)
    ELSE LET g1 == GCD(Abs(x.n), y.d)
             g2 == GCD(Abs(y.n), x.d)
         IN  Frac((x.n \div g1) * (y.n \div g2), (x.d \div g2) * (y.d \div g1))

Div(x, y) ==
    IF x.k = "nan" \/ y.k = "nan" THEN NaN
    ELSE IF y.k = "inf" THEN (IF x.k = "inf" THEN NaN ELSE Num(0, 1))
    ELSE IF y.n = 0
         THEN (IF x.n = 0 THEN NaN ELSE IF x.n > 0 THEN PosInf ELSE NegInf)
    ELSE IF x.k = "inf"
         THEN (IF Sign(x.n) = Sign(y.n) THEN PosInf ELSE NegInf)
    ELSE LET g1 == GCD(Abs(x.n), Abs(y.n))
             g2 == GCD(x.d, y.d)
         IN  Frac((x.n \div g1) * (y.d \div g2), (x.d \div g2) * (y.n \div g1))

\* x > y on floats: every comparison with NaN is false.
GT(x, y) ==
    IF x.k = "nan" \/ y.k = "nan" THEN FALSE
    ELSE IF x.k = "inf" THEN x.n > 0 /\ ~(y.k = "inf" /\ y.n > 0)
    ELSE IF y.k = "inf" THEN y.n < 0
    ELSE x.n * y.d > y.n * x.d

LT(x, y) == GT(y, x)

\* Python truthiness of a number or None: None and zero are falsy.
Truthy(x) == ~(x.k = "none" \/ (x.k = "num" /\ x.n = 0))

\* Python's min(x, y): y when y < x, else x.
Min2(x, y) == IF LT(y, x) THEN y ELSE x

\* round(x, digits) with p = 10^digits (p = q1 * q2, both factors small):
\* round half to even of x * p, kept as a rational over p.
RoundTo(x, q1, q2) ==
    IF ~IsNum(x) THEN x
    ELSE LET a0 == x.n \div x.d
             b0 == x.n % x.d
             a1 == a0 * q1 + (b0 * q1) \div x.d
             b1 == (b0 * q1) % x.d
             a2 == a1 * q2 + (b1 * q2) \div x.d
             b2 == (b1 * q2) % x.d
             up == 2 * b2 > x.d \/ (2 * b2 = x.d /\ a2 % 2 = 1)
         IN  Frac(IF up THEN a2 + 1 ELSE a2, q1 * q2)

\* x ** 5.0
Pow5(x) ==
    IF IsNum(x) THEN Num(x.n * x.n * x.n * x.n * x.n, x.d * x.d * x.d * x.d * x.d)
    ELSE IF x.k = "inf" THEN x
    ELSE NaN

\* x ** (1/r) for r = 2 ("sqrt") or r = 12 ("root12"): a negative float base
\* gives NaN, the roots of 0 and 1 are exact, any other root stays symbolic.
Root(x, kind) ==
    IF x.k = "nan" THEN NaN
    ELSE IF x.k = "inf" THEN (IF x.n > 0 THEN PosInf ELSE NaN)
    ELSE IF x.n < 0 THEN NaN
    ELSE IF x.n = 0 \/ x.n = x.d THEN x
    ELSE [k |-> kind, n |-> x.n, d |-> x.d]

----------------------------------------------------------------------------
\* Price columns (run-length encoded) and data frames.

RECURSIVE RunsLen(_)
RunsLen(runs) ==
    IF runs = <<>> THEN 0 ELSE runs[1][1] + RunsLen(Tail(runs))

\* The value in row i (1-based) of the column.
RECURSIVE At(_, _)
At(runs, i) ==
    IF i <= runs[1][1] THEN runs[1][2] ELSE At(Tail(runs), i - runs[1][1])

\* Sum of the last w rows of the column (w <= length).
RECURSIVE TailSum(_, _)
TailSum(runs, w) ==
    IF w <= 0 \/ runs = <<>> THEN 0
    ELSE LET last == runs[Len(runs)]
             take == IF last[1] < w THEN last[1] ELSE w
         IN  take * last[2] + TailSum(SubSeq(runs, 1, Len(runs) - 1), w - take)

\* Rows at which a new run starts (the first row excluded).
RECURSIVE RunStarts(_, _)
RunStarts(runs, from) ==
    IF Len(runs) <= 1 THEN {}
    ELSE {from + runs[1][1]} \cup RunStarts(Tail(runs), from + runs[1][1])

DataFrame(runs, first) ==
    [Close |-> runs, first |-> first, cols |-> {"Close", "Volume"}]

\* len(df)
DfLen(df) == RunsLen(df.Close)

\* df['Close'] at date t (first <= t <= last date)
CloseOn(df, t) == At(df.Close, t - df.first + 1)

----------------------------------------------------------------------------
\* Stage 1: CAPM and risk metrics (analysis.py, lines 15-40).

\* Daily returns are multiples of 1/Scale: Scale is the least common multiple
\* of the valid prices, the only values a return is ever divided by.
RECURSIVE LcmUpTo(_)
LcmUpTo(p) ==
    IF p <= 1 THEN 1
    ELSE LET l == LcmUpTo(p - 1) IN (l * p) \div GCD(l, p)

Scale == LcmUpTo(MaxPrice)

RECURSIVE SumOver(_, _)
SumOver(f, S) ==
    IF S = {} THEN 0
    ELSE LET i == CHOOSE j \in S : TRUE IN f[i] + SumOver(f, S \ {i})

\* pct_change of the column at date t, times Scale.
PctChange(df, t) ==
    (Scale * (CloseOn(df, t) - CloseOn(df, t - 1))) \div CloseOn(df, t - 1)

Max2(a, b) == IF a > b THEN a ELSE b
Min2Int(a, b) == IF a < b THEN a ELSE b

\* The dates both frames have: pd.DataFrame({...}).dropna() keeps the rows in
\* which both columns hold a value (an inner join on the date index).
JoinLo(stock_df, market_df) == Max2(stock_df.first, market_df.first)
JoinHi(stock_df, market_df) ==
    Min2Int(stock_df.first + DfLen(stock_df) - 1,
            market_df.first + DfLen(market_df) - 1)

\* A slip: the joined rows counted instead of the returns between them.
NumJoinedRows(stock_df, market_df) ==
    Max2(JoinHi(stock_df, market_df) - JoinLo(stock_df, market_df) + 1, 0)

\* Number of rows of `returns`: prices.pct_change().dropna() drops the first
\* joined row.
NumReturns(stock_df, market_df) ==
    Max2(JoinHi(stock_df, market_df) - JoinLo(stock_df, market_df), 0)

\* The sample statistics of the returns (ddof = 1), from the sums over the
\* dates on which a price changes (every other return is 0).
ReturnSums(stock_df, market_df) ==
    LET lo == JoinLo(stock_df, market_df)
        hi == JoinHi(stock_df, market_df)
        D  == {t \in RunStarts(stock_df.Close, stock_df.first)
                      \cup RunStarts(market_df.Close, market_df.first) :
                 lo < t /\ t <= hi}
        rs == [t \in D |-> PctChange(stock_df, t)]
        rm == [t \in D |-> PctChange(market_df, t)]
    IN  [m  |-> NumReturns(stock_df, market_df),
         s  |-> SumOver(rs, D),
         mk |-> SumOver(rm, D),
         ss |-> SumOver([t \in D |-> rs[t] * rs[t]], D),
         mm |-> SumOver([t \in D |-> rm[t] * rm[t]], D),
         sm |-> SumOver([t \in D |-> rs[t] * rm[t]], D)]

\* returns.cov().loc['Stock', 'Market'], returns['Market'].var() and
\* returns['Stock'].var(): NaN with a single observation.
Cov(u) ==
    IF u.m < 2 THEN NaN
    ELSE Frac(u.m * u.sm - u.s * u.mk, u.m * (u.m - 1) * Scale * Scale)

MarketVar(u) ==
    IF u.m < 2 THEN NaN
    ELSE Frac(u.m * u.mm - u.mk * u.mk, u.m * (u.m - 1) * Scale * Scale)

StockVar(u) ==
    IF u.m < 2 THEN NaN
    ELSE Frac(u.m * u.ss - u.s * u.s, u.m * (u.m - 1) * Scale * Scale)

\* beta = cov / market_var, or the 1.0 default when there are no returns.
Beta(stock_df, market_df) ==
    IF NumReturns(stock_df, market_df) > 0
    THEN LET u == ReturnSums(stock_df, market_df) IN Div(Cov(u), MarketVar(u))
    ELSE Num(1, 1)

\* volatility = std * sqrt(252) = sqrt(252 * var), or the 0.20 default.
Volatility(stock_df, market_df) ==
    IF NumReturns(stock_df, market_df) > 0
    THEN LET u == ReturnSums(stock_df, market_df)
         IN  Root(Mul(Num(TRADING_DAYS, 1), StockVar(u)), "sqrt")
    ELSE Num(1, 5)

\* expected_return = rf + beta * (rm - rf), rf = 0.045, rm = 0.10
RiskFree == Num(45, 1000)
MarketReturn == Num(100, 1000)
ExpectedReturn(b) == Add(RiskFree, Mul(b, Sub(MarketReturn, RiskFree)))

----------------------------------------------------------------------------
\* Stage 2: technical signals (analysis.py, lines 42-73).

\* df['Close'].rolling(window=w).mean().iloc[-1]: NaN while fewer than w rows
\* precede the last one.
RollingMean(df, w) ==
    IF DfLen(df) >= w THEN Frac(TailSum(df.Close, w), w) ELSE NaN

\* df['Close'].iloc[-j], j >= 1 (the caller has checked j <= len(df)).
ILocBack(df, j) == Num(At(df.Close, DfLen(df) - j + 1), 1)

\* Whether the comparison logic runs: "if len(stock_df) > 50".
\* A slip: averages already present in the frame are taken as computed, and
\* the trend stage is skipped.
HistoryNotAveraged(df) == DfLen(df) > SMA_FAST /\ "SMA_50" \notin df.cols

EnoughHistory(df) == DfLen(df) > SMA_FAST

\* A slip: the 200-period average read as soon as it is defined.
UseSlowAverageWhenDefined(df) == DfLen(df) >= SMA_SLOW

\* Whether the 200-period average is read: "if len(stock_df) > 200".
UseSlowAverage(df) == DfLen(df) > SMA_SLOW

\* sma_200 = stock_df['SMA_200'].iloc[-1] if len(stock_df) > 200 else sma_50
Sma200(df) ==
    IF UseSlowAverage(df) THEN RollingMean(df, SMA_SLOW)
    ELSE RollingMean(df, SMA_FAST)

\* The smart-trend if/elif chain: <<trend, trend_desc>>.
SmartTrend(price, s50, s200) ==
    IF GT(s50, s200) /\ GT(price, s50)
        THEN <<"BULLISH", "Strong Uptrend (Price > Green > Red)">>
    ELSE IF GT(s50, s200) /\ LT(price, s50)
        THEN <<"WEAKENING", "Caution: Price dropped below Green">>
    ELSE IF LT(s50, s200) /\ LT(price, s50)
        THEN <<"BEARISH", "Downtrend (Price < Green < Red)">>
    ELSE IF LT(s50, s200) /\ GT(price, s50)
        THEN <<"RECOVERY", "Watch: Price reclaimed Green line">>
    ELSE <<"NEUTRAL", "Consolidating">>

\* The trend of a non-empty frame.
TrendOf(df) ==
    IF EnoughHistory(df)
    THEN SmartTrend(ILocBack(df, 1), RollingMean(df, SMA_FAST), Sma200(df))
    ELSE <<"NEUTRAL", "Insufficient History">>

----------------------------------------------------------------------------
\* Stage 3: valuation (analysis.py, lines 75-82).

\* info.get(key): None when the key is absent.
Get(info, key) == IF key \in DOMAIN info THEN info[key] ELSE None

\* A slip: the gap measured against the target instead of the price.
ValuationOverTarget(info, price) ==
    LET t == Get(info, "targetMeanPrice")
    IN  IF Truthy(t) THEN <<t, Div(Sub(t, price), t)>>
        ELSE <<price, Num(0, 1)>>

\* <<target_price, upside>>
Valuation(info, price) ==
    LET t == Get(info, "targetMeanPrice")
    IN  IF Truthy(t) THEN <<t, Div(Sub(t, price), price)>>
        ELSE <<price, Num(0, 1)>>

----------------------------------------------------------------------------
\* Stage 4: the verdict (analysis.py, lines 84-94).

\* A slip: valuation gates the bearish row as it gates the bullish one.
VerdictUpsideGated(tr, up) ==
    IF tr = "BULLISH" /\ GT(up, Num(0, 1)) THEN "LONG (BUY)"
    ELSE IF tr = "BEARISH" /\ ~GT(up, Num(0, 1)) THEN "SHORT (SELL)"
    ELSE IF tr = "WEAKENING" THEN "EXIT / CAUTION"
    ELSE IF tr = "RECOVERY" THEN "WATCH FOR ENTRY"
    ELSE "HOLD"

Verdict(tr, up) ==
    IF tr = "BULLISH" /\ GT(up, Num(0, 1)) THEN "LONG (BUY)"
    ELSE IF tr = "BEARISH" THEN "SHORT (SELL)"
    ELSE IF tr = "WEAKENING" THEN "EXIT / CAUTION"
    ELSE IF tr = "RECOVERY" THEN "WATCH FOR ENTRY"
    ELSE "HOLD"

----------------------------------------------------------------------------
\* Stage 5: the investment time machine (analysis.py, lines 96-116).

\* get_past_value(days)
GetPastValue(df, price, days) ==
    IF DfLen(df) > days THEN Div(price, ILocBack(df, days)) ELSE None

Horizons == {"1 Month", "6 Months", "1 Year", "5 Years"}

HorizonDays(h) ==
    CASE h = "1 Month" -> DAYS_1MO
      [] h = "6 Months" -> DAYS_6MO
      [] h = "1 Year" -> DAYS_1YR
      [] h = "5 Years" -> DAYS_5YR

\* The "Past" dictionary of the result.
Past(df, price) == [h \in Horizons |-> GetPastValue(df, price, HorizonDays(h))]

\* A slip: the 5-year projection compounds the uncapped rate.
UncappedRate(rate) == rate

\* The growth cap of the 5-year projection: min(rate, 0.50).
CappedRate(rate) == Min2(rate, Num(1, 2))

\* fut_1mo, fut_6mo, fut_1yr, fut_5yr from the (possibly substituted)
\* target_price of stage 3.
Future(target, price) ==
    IF Truthy(target)
    THEN LET rate == Div(Sub(target, price), price)
             grow == Add(Num(1, 1), rate)
         IN  [h \in Horizons |->
                CASE h = "1 Month" -> Root(grow, "root12")
                  [] h = "6 Months" -> Root(grow, "sqrt")
                  [] h = "1 Year" -> grow
                  [] h = "5 Years" -> Pow5(Add(Num(1, 1), CappedRate(rate)))]
    ELSE [h \in Horizons |-> None]

----------------------------------------------------------------------------
\* Stage 6: packaging (analysis.py, lines 118-153).

\* A formatted string: the format and the value it renders.
Text(fmt, v) == [k |-> "str", fmt |-> fmt, v |-> v]
NA == Text("N/A", None)

\* f"{round(x * 100, 1)}%"; a root is kept as it is (the text then stands for
\* the one-decimal percentage of that root).
PctText(x) ==
    Text("pct1", IF IsNum(x) THEN RoundTo(Mul(x, Num(100, 1)), 10, 1) ELSE x)

\* The "fundamentals" dictionary of the result.  freeCashflow is held in
\* millions, so value / 1e9 is value / 1000; ":.2f" keeps two decimals.
Fundamentals(info) ==
    [key \in {"Free Cash Flow", "Debt/Equity"} |->
        IF key = "Free Cash Flow"
        THEN (IF Truthy(Get(info, "freeCashflow"))
              THEN Text("usdB2", RoundTo(Div(Get(info, "freeCashflow"),
                                             Num(1000, 1)), 10, 10))
              ELSE NA)
        ELSE (IF Truthy(Get(info, "debtToEquity"))
              THEN RoundTo(Get(info, "debtToEquity"), 10, 10)
              ELSE NA)]

\* The returned dictionary; "history" is the caller's own stock frame (the
\* same object, not a copy).
Result(df, info, b, vol, er, tr, desc, price, target, up, vd, fut) ==
    [k |-> "dict",
     metrics |-> [Beta |-> RoundTo(b, 10, 10),
                  Volatility |-> PctText(vol),
                  ExpectedReturn |-> PctText(er),
                  Signal |-> tr,
                  SignalDesc |-> desc],
     valuation |-> [CurrentPrice |-> price,
                    TargetPrice |-> target,
                    Upside |-> up,
                    Verdict |-> vd],
     time_machine |-> [Past |-> Past(df, price), Future |-> fut],
     history |-> [ref |-> "stock_history"],
     fundamentals |-> Fundamentals(info)]

NoResult == [k |-> "none"]
Unset == [k |-> "unset"]

\* The fundamentals keys the dashboard tables read (app_n.py, lines 272-296);
\* the AI prompt builder reads the last three (ai_insights.py, lines 34-36).
DashboardKeys ==
    {"Debt/Equity", "Free Cash Flow", "Revenue Growth", "Dividend Yield"}

----------------------------------------------------------------------------
\* Inputs.

Prices == 1 .. MaxPrice

\* The last close may also be structurally invalid (zero or negative).
LastPrices == {-1, 0} \cup Prices

Thresholds == {SMA_FAST, SMA_SLOW, DAYS_1MO, DAYS_6MO, DAYS_1YR, DAYS_5YR}

Lengths ==
    {0, 1, 2} \cup {t + d : t \in Thresholds, d \in (-Slack) .. Slack}

\* Length of the most recent price regime.
Recents == {DAYS_1MO, 2 * SMA_FAST}

\* n closes: price a, then for the last k rows price b, and c on the last row.
StockRuns(n, k, a, b, c) ==
    IF n = 0 THEN <<>>
    ELSE IF n = 1 THEN << <<1, c>> >>
    ELSE IF k >= n THEN << <<n - 1, b>>, <<1, c>> >>
    ELSE << <<n - k, a>>, <<k - 1, b>>, <<1, c>> >>

StockFrames ==
    {DataFrame(StockRuns(n, k, a, b, c), 1) :
        n \in Lengths, k \in Recents, a \in Prices, b \in Prices,
        c \in LastPrices}

FewStockFrames ==
    {DataFrame(StockRuns(n, DAYS_1MO, 1, MaxPrice, c), 1) :
        n \in {0, 1, 2, 3, SMA_FAST + 1, SMA_SLOW + 1}, c \in {1, 2}}

\* The flat benchmark get_raw_data substitutes when the SPY download fails
\* (Fetch_data.py, lines 48-52): the stock frame with Close = 1.0.
FlatMarket(stock_df) ==
    [stock_df EXCEPT !.Close =
        IF DfLen(stock_df) = 0 THEN <<>> ELSE << <<DfLen(stock_df), 1>> >>]

\* A benchmark that moves on its last day.
StepMarket(stock_df) ==
    [stock_df EXCEPT !.Close = StockRuns(DfLen(stock_df), 1, 1, 1, 2)]

\* A benchmark that moves in the middle of the stock's history.
MidMarket(stock_df) ==
    [stock_df EXCEPT !.Close =
        StockRuns(DfLen(stock_df), 2, 1, MaxPrice, MaxPrice)]

\* The benchmarks tried with a stock frame: on the stock's dates, or starting
\* later (two, one or no common dates).
MarketsFor(stock_df) ==
    {[m EXCEPT !.first = f] :
        m \in {FlatMarket(stock_df), StepMarket(stock_df),
               MidMarket(stock_df), stock_df},
        f \in {g \in {1} \cup {DfLen(stock_df) + j : j \in {-1, 0, 1}} : g >= 1}}

InfoKeys ==
    {"targetMeanPrice", "freeCashflow", "debtToEquity", "dividendYield",
     "revenueGrowth"}

\* A metadata record holding the keys S, with analyst target t.
Info(S, t) ==
    [key \in S |->
        CASE key = "targetMeanPrice" -> Num(t, 1)
          [] key = "freeCashflow" -> Num(2505, 1)
          [] key = "debtToEquity" -> Frac(45678, 1000)
          [] key = "dividendYield" -> Num(1, 50)
          [] key = "revenueGrowth" -> Num(1, 10)]

\* yfinance also reports a field it has no value for as None.
NullInfo == [key \in InfoKeys |-> None]

TargetInfos ==
    {Info({}, 1)} \cup {Info({"targetMeanPrice"}, t) : t \in 1 .. MaxTarget}

AllInfos == {Info(S, MaxTarget) : S \in SUBSET InfoKeys} \cup {NullInfo}

Bundle(stock_df, market_df, info) ==
    [k |-> "bundle", stock_history |-> stock_df, market_history |-> market_df,
     info |-> info]

NoData == [k |-> "none"]

Inputs ==
    {NoData}
    \cup {Bundle(s, FlatMarket(s), i) : s \in StockFrames, i \in TargetInfos}
    \cup UNION {{Bundle(s, m, Info({}, 1)) : m \in MarketsFor(s)} :
                   s \in FewStockFrames}
    \cup {Bundle(s, StepMarket(s), i) : s \in FewStockFrames, i \in AllInfos}

----------------------------------------------------------------------------
\* The state machine.

----------------------------------------------------------------------------
\* get_raw_data (Fetch_data.py): the provider and the values it hands out.

Tickers == {"AAPL", "BRK.B", "BF.B"}

\* What the provider answers: the Ticker constructors and the history
\* requests (an exception, an empty frame or a price series), the three
\* statement properties and .info (an exception or a value).
Providers ==
    [ticker : Tickers,
     lookup : {"raise", "ok"},
     history5y : {"raise", "empty", "series"},
     history1y : {"raise", "empty", "series"},
     spy_lookup : {"raise", "ok"},
     spy_history : {"raise", "empty", "series"},
     balance_sheet : {"raise", "table"},
     cashflow : {"raise", "table"},
     financials : {"raise", "table"},
     info : {"raise", "dict"}]

\* The frames behind the answers of history(period=...).
History(answer, period) ==
    IF answer = "empty" THEN DataFrame(<<>>, 1)
    ELSE IF period = "5y" THEN DataFrame(<< <<2, 1>>, <<1, MaxPrice>> >>, 1)
    ELSE DataFrame(<< <<1, 1>>, <<1, MaxPrice>> >>, 2)

\* DataFrame.empty
Empty(df) == DfLen(df) = 0

\* A statement table of the provider, and pd.DataFrame().
Table(name) == [k |-> "table", name |-> name, rows |-> 1]
EmptyTable == [k |-> "table", name |-> "", rows |-> 0]

\* stock.info, and the fallback {"symbol": ticker_symbol}.
ProviderInfo(symbol) == [symbol |-> symbol, targetMeanPrice |-> Num(MaxTarget, 1)]
MinimalInfo(symbol) == [symbol |-> symbol]

\* Lines 14-17.
Sanitize(ticker_symbol) ==
    IF ticker_symbol = "BRK.B" THEN "BRK-B"
    ELSE IF ticker_symbol = "BF.B" THEN "BF-B"
    ELSE ticker_symbol

\* The dictionary of lines 74-82.
RawBundle(symbol, info, stock_history, market_history, balance_sheet, cash_flow, income_stmt) ==
    [k |-> "bundle", symbol |-> symbol, info |-> info,
     stock_history |-> stock_history, market_history |-> market_history,
     balance_sheet |-> balance_sheet, cash_flow |-> cash_flow,
     income_stmt |-> income_stmt]

\* The locals of get_raw_data before its first statement.
FetchStart(ticker_symbol) ==
    [pc |-> "sanitize", ticker_symbol |-> ticker_symbol,
     stock_history |-> None, market_history |-> None,
     balance_sheet |-> None, cash_flow |-> None, income_stmt |-> None,
     info |-> None, requests |-> {}, ret |-> Unset, exc |-> ""]

\* No fetch is running (the analysis is handed its bundle directly).
NoProvider == [ticker |-> ""]
NoFetch == [pc |-> "off"]

Init ==
    /\ data \in Inputs
    /\ pc = "call"
    /\ beta = None /\ volatility = None /\ expected_return = None
    /\ curr_price = None /\ sma_50 = None /\ sma_200 = None
    /\ trend = "" /\ trend_desc = ""
    /\ target_price = None /\ upside = None /\ verdict = ""
    /\ future = [h \in Horizons |-> None]
    /\ result = Unset
    /\ exc = ""
    /\ previous = Unset
    /\ provider = NoProvider
    /\ fetch = NoFetch

\* "if not data: return None" (lines 8-13)
Call ==
    /\ pc = "call"
    /\ IF data.k = "none"
       THEN result' = NoResult /\ pc' = "done"
       ELSE result' = result /\ pc' = "risk"
    /\ UNCHANGED <<previous, fetchVars>>
    /\ UNCHANGED <<data, beta, volatility, expected_return, curr_price,
                   sma_50, sma_200, trend, trend_desc, target_price, upside,
                   verdict, future, exc>>

\* Lines 15-40.
Risk ==
    /\ pc = "risk"
    /\ beta' = Beta(data.stock_history, data.market_history)
    /\ volatility' = Volatility(data.stock_history, data.market_history)
    /\ expected_return' = ExpectedReturn(beta')
    /\ pc' = "trend"
    /\ UNCHANGED <<previous, fetchVars>>
    /\ UNCHANGED <<data, curr_price, sma_50, sma_200, trend, trend_desc,
                   target_price, upside, verdict, future, result, exc>>

\* Lines 42-73: the two SMA columns are added to the caller's frame; an
\* empty frame makes .iloc[-1] raise IndexError.
Trend ==
    /\ pc = "trend"
    /\ data' = [data EXCEPT !.stock_history.cols = @ \cup {"SMA_50", "SMA_200"}]
    /\ LET df == data.stock_history
       IN  IF DfLen(df) = 0
           THEN /\ exc' = "IndexError"
                /\ pc' = "raised"
                /\ UNCHANGED <<curr_price, sma_50, sma_200, trend, trend_desc>>
           ELSE /\ curr_price' = ILocBack(df, 1)
                /\ sma_50' = IF EnoughHistory(df)
                             THEN RollingMean(df, SMA_FAST) ELSE sma_50
                /\ sma_200' = IF EnoughHistory(df) THEN Sma200(df) ELSE sma_200
                /\ trend' = TrendOf(df)[1]
                /\ trend_desc' = TrendOf(df)[2]
                /\ pc' = "valuation"
                /\ exc' = exc
    /\ UNCHANGED <<previous, fetchVars>>
    /\ UNCHANGED <<beta, volatility, expected_return, target_price, upside,
                   verdict, future, result>>

\* Lines 75-82.
Valuate ==
    /\ pc = "valuation"
    /\ target_price' = Valuation(data.info, curr_price)[1]
    /\ upside' = Valuation(data.info, curr_price)[2]
    /\ pc' = "verdict"
    /\ UNCHANGED <<previous, fetchVars>>
    /\ UNCHANGED <<data, beta, volatility, expected_return, curr_price,
                   sma_50, sma_200, trend, trend_desc, verdict, future,
                   result, exc>>

\* Lines 84-94.
Decide ==
    /\ pc = "verdict"
    /\ verdict' = Verdict(trend, upside)
    /\ pc' = "time_machine"
    /\ UNCHANGED <<previous, fetchVars>>
    /\ UNCHANGED <<data, beta, volatility, expected_return, curr_price,
                   sma_50, sma_200, trend, trend_desc, target_price, upside,
                   future, result, exc>>

\* Lines 104-116.
TimeMachine ==
    /\ pc = "time_machine"
    /\ future' = Future(target_price, curr_price)
    /\ pc' = "package"
    /\ UNCHANGED <<previous, fetchVars>>
    /\ UNCHANGED <<data, beta, volatility, expected_return, curr_price,
                   sma_50, sma_200, trend, trend_desc, target_price, upside,
                   verdict, result, exc>>

\* Lines 118-153.
Package ==
    /\ pc = "package"
    /\ result' = Result(data.stock_history, data.info, beta, volatility,
                        expected_return, trend, trend_desc, curr_price,
                        target_price, upside, verdict, future)
    /\ pc' = "done"
    /\ UNCHANGED <<previous, fetchVars>>
    /\ UNCHANGED <<data, beta, volatility, expected_return, curr_price,
                   sma_50, sma_200, trend, trend_desc, target_price, upside,
                   verdict, future, exc>>

\* The dashboard reads the result (app_n.py, lines 192-296): a missing
\* fundamentals key raises KeyError; with no result it shows an error text.
Dashboard ==
    /\ pc = "done"
    /\ IF result.k = "dict" /\ ~(DashboardKeys \subseteq DOMAIN result.fundamentals)
       THEN exc' = "KeyError" /\ pc' = "raised"
       ELSE exc' = exc /\ pc' = "rendered"
    /\ UNCHANGED <<previous, fetchVars>>
    /\ UNCHANGED <<data, beta, volatility, expected_return, curr_price,
                   sma_50, sma_200, trend, trend_desc, target_price, upside,
                   verdict, future, result>>

\* A second call on the same bundle, as the first call left it: the locals
\* of the new activation are fresh.
CallAgain ==
    /\ pc = "done"
    /\ previous = Unset
    /\ previous' = result
    /\ pc' = "call"
    /\ beta' = None /\ volatility' = None /\ expected_return' = None
    /\ curr_price' = None /\ sma_50' = None /\ sma_200' = None
    /\ trend' = "" /\ trend_desc' = ""
    /\ target_price' = None /\ upside' = None /\ verdict' = ""
    /\ future' = [h \in Horizons |-> None]
    /\ result' = Unset
    /\ UNCHANGED <<data, exc, fetchVars>>

Next ==
    \/ Call
    \/ Risk
    \/ Trend
    \/ Valuate
    \/ Decide
    \/ TimeMachine
    \/ Package
    \/ Dashboard
    \/ CallAgain

Spec == Init /\ [][Next]_vars

----------------------------------------------------------------------------
\* get_raw_data, statement by statement (Fetch_data.py, lines 5-86).

analysisVars == <<data, pc, beta, volatility, expected_return, curr_price,
                  sma_50, sma_200, trend, trend_desc, target_price, upside,
                  verdict, future, result, exc, previous>>

\* "return None" (lines 37 and 40).
ReturnNone(f) == [f EXCEPT !.ret = NoData, !.pc = "returned"]

\* The handler of the outer try (lines 84-86): print, return None.
OuterExcept(f) == ReturnNone(f)

\* Lines 14-19.
SanitizeTicker ==
    /\ fetch.pc = "sanitize"
    /\ fetch' = [fetch EXCEPT !.ticker_symbol = Sanitize(@), !.pc = "lookup"]
    /\ UNCHANGED <<analysisVars, provider>>

\* Line 22: stock = yf.Ticker(ticker_symbol), inside the outer try only.
Lookup ==
    /\ fetch.pc = "lookup"
    /\ fetch' = IF provider.lookup = "raise" THEN OuterExcept(fetch)
                ELSE [fetch EXCEPT !.pc = "history5y"]
    /\ UNCHANGED <<analysisVars, provider>>

\* Line 27, with the handler of lines 38-40.
History5y ==
    /\ fetch.pc = "history5y"
    /\ LET f == [fetch EXCEPT !.requests = @ \cup {"5y"}]
       IN  fetch' = IF provider.history5y = "raise" THEN ReturnNone(f)
                    ELSE [f EXCEPT
                            !.stock_history = History(provider.history5y, "5y"),
                            !.pc = "fallback"]
    /\ UNCHANGED <<analysisVars, provider>>

\* Lines 30-32, with the handler of lines 38-40.
Fallback1y ==
    /\ fetch.pc = "fallback"
    /\ fetch' =
          IF Empty(fetch.stock_history)
          THEN LET f == [fetch EXCEPT !.requests = @ \cup {"1y"}]
               IN  IF provider.history1y = "raise" THEN ReturnNone(f)
                   ELSE [f EXCEPT
                           !.stock_history = History(provider.history1y, "1y"),
                           !.pc = "check"]
          ELSE [fetch EXCEPT !.pc = "check"]
    /\ UNCHANGED <<analysisVars, provider>>

\* Lines 35-37.
CheckHistory ==
    /\ fetch.pc = "check"
    /\ fetch' = IF Empty(fetch.stock_history) THEN ReturnNone(fetch)
                ELSE [fetch EXCEPT !.pc = "benchmark"]
    /\ UNCHANGED <<analysisVars, provider>>

\* A slip: the SPY download outside its own try, so that its failure falls
\* to the outer handler.
BenchmarkUnguarded ==
    /\ fetch.pc = "benchmark"
    /\ fetch' =
          IF provider.spy_lookup = "raise" \/ provider.spy_history = "raise"
          THEN OuterExcept(fetch)
          ELSE [fetch EXCEPT
                  !.market_history = History(provider.spy_history, "5y"),
                  !.pc = "statements"]
    /\ UNCHANGED <<analysisVars, provider>>

\* Lines 45-52: an empty SPY frame is kept; only an exception is replaced by
\* the flat benchmark.
Benchmark ==
    /\ fetch.pc = "benchmark"
    /\ fetch' =
          [fetch EXCEPT
             !.market_history =
                IF provider.spy_lookup = "raise" \/ provider.spy_history = "raise"
                THEN FlatMarket(fetch.stock_history)
                ELSE History(provider.spy_history, "5y"),
             !.pc = "statements"]
    /\ UNCHANGED <<analysisVars, provider>>

\* Lines 56-64: the first of the three properties that raises empties all.
Statements ==
    /\ fetch.pc = "statements"
    /\ fetch' =
          IF "raise" \in {provider.balance_sheet, provider.cashflow,
                          provider.financials}
          THEN [fetch EXCEPT !.balance_sheet = EmptyTable,
                             !.cash_flow = EmptyTable,
                             !.income_stmt = EmptyTable,
                             !.pc = "info"]
          ELSE [fetch EXCEPT !.balance_sheet = Table("balance_sheet"),
                             !.cash_flow = Table("cashflow"),
                             !.income_stmt = Table("financials"),
                             !.pc = "info"]
    /\ UNCHANGED <<analysisVars, provider>>

\* Lines 68-71.
FetchInfo ==
    /\ fetch.pc = "info"
    /\ fetch' = [fetch EXCEPT
                   !.info = IF provider.info = "raise"
                            THEN MinimalInfo(fetch.ticker_symbol)
                            ELSE ProviderInfo(fetch.ticker_symbol),
                   !.pc = "bundle"]
    /\ UNCHANGED <<analysisVars, provider>>

\* Lines 74-82.
ReturnBundle ==
    /\ fetch.pc = "bundle"
    /\ fetch' = [fetch EXCEPT
                   !.ret = RawBundle(fetch.ticker_symbol, fetch.info,
                                     fetch.stock_history, fetch.market_history,
                                     fetch.balance_sheet, fetch.cash_flow,
                                     fetch.income_stmt),
                   !.pc = "returned"]
    /\ UNCHANGED <<analysisVars, provider>>

FetchInit ==
    /\ provider \in Providers
    /\ fetch = FetchStart(provider.ticker)
    /\ data = NoData
    /\ pc = "off"
    /\ beta = None /\ volatility = None /\ expected_return = None
    /\ curr_price = None /\ sma_50 = None /\ sma_200 = None
    /\ trend = "" /\ trend_desc = ""
    /\ target_price = None /\ upside = None /\ verdict = ""
    /\ future = [h \in Horizons |-> None]
    /\ result = Unset
    /\ exc = ""
    /\ previous = Unset

FetchNext ==
    \/ SanitizeTicker
    \/ Lookup
    \/ History5y
    \/ Fallback1y
    \/ CheckHistory
    \/ Benchmark
    \/ Statements
    \/ FetchInfo
    \/ ReturnBundle

FetchSpec == FetchInit /\ [][FetchNext]_vars

----------------------------------------------------------------------------
\* Vocabulary of the claims.

Stock == data.stock_history
Market == data.market_history
NumRows == DfLen(Stock)
LastClose == At(Stock.Close, NumRows)

\* How far the call has come.
Analysed == data.k = "bundle"
AfterRisk == Analysed /\ pc \notin {"call", "risk"}
AfterTrend == AfterRisk /\ pc # "trend" /\ exc # "IndexError"
AfterValuation == AfterTrend /\ pc # "valuation"
AfterVerdict == AfterValuation /\ pc # "verdict"
AfterTimeMachine == AfterVerdict /\ pc # "time_machine"
Returned == AfterTimeMachine /\ pc # "package"

\* The window sums of the closes, for comparisons free of division.
Sum50 == TailSum(Stock.Close, SMA_FAST)
Sum200 == TailSum(Stock.Close, SMA_SLOW)
FastAboveSlow == Sum50 * SMA_SLOW > Sum200 * SMA_FAST
FastBelowSlow == Sum50 * SMA_SLOW < Sum200 * SMA_FAST
PriceAboveFast == LastClose * SMA_FAST > Sum50
PriceBelowFast == LastClose * SMA_FAST < Sum50

UpsidePositive ==
    \/ upside.k = "num" /\ upside.n > 0
    \/ upside.k = "inf" /\ upside.n > 0

AnalystTarget == Get(data.info, "targetMeanPrice")

\* An empty series, or one holding a zero or negative price.
InvalidSeries(df) ==
    \/ df.Close = <<>>
    \/ \E i \in 1 .. Len(df.Close) : df.Close[i][2] <= 0

\* The claims about the stages are read on well-formed series (PriceSeries
\* of the data model: non-empty, every close > 0).
ValidStock == Analysed /\ ~InvalidSeries(Stock)

----------------------------------------------------------------------------
\* C1: the verdict is the first matching row of the decision table: BULLISH
\* with upside > 0 gives LONG (BUY); BEARISH gives SHORT (SELL) whatever the
\* upside; WEAKENING gives EXIT / CAUTION; RECOVERY gives WATCH FOR ENTRY;
\* everything else (BULLISH with upside <= 0, NEUTRAL) gives HOLD.
C1_VerdictTable ==
    AfterVerdict =>
        /\ trend \in {"BULLISH", "WEAKENING", "BEARISH", "RECOVERY", "NEUTRAL"}
        /\ (trend = "BULLISH" /\ UpsidePositive) => verdict = "LONG (BUY)"
        /\ trend = "BEARISH" => verdict = "SHORT (SELL)"
        /\ trend = "WEAKENING" => verdict = "EXIT / CAUTION"
        /\ trend = "RECOVERY" => verdict = "WATCH FOR ENTRY"
        /\ (trend = "BULLISH" /\ ~UpsidePositive) => verdict = "HOLD"
        /\ trend = "NEUTRAL" => verdict = "HOLD"
        /\ Returned => result.valuation.Verdict = verdict

\* A bearish series of valid prices with a positive analyst upside is sold.
C1_Witness ==
    /\ Returned
    /\ LastClose > 0
    /\ trend = "BEARISH"
    /\ UpsidePositive
    /\ result.valuation.Verdict = "SHORT (SELL)"

\* C2 (as claimed): with both averages defined (200 rows or more) the trend
\* follows the strict comparisons of price, sma50 and the 200-period average;
\* any equality gives NEUTRAL.
C2_TrendFromAverages ==
    (AfterTrend /\ ValidStock /\ NumRows >= SMA_SLOW) =>
        trend = (IF FastAboveSlow /\ PriceAboveFast THEN "BULLISH"
                 ELSE IF FastAboveSlow /\ PriceBelowFast THEN "WEAKENING"
                 ELSE IF FastBelowSlow /\ PriceBelowFast THEN "BEARISH"
                 ELSE IF FastBelowSlow /\ PriceAboveFast THEN "RECOVERY"
                 ELSE "NEUTRAL")

\* C3 (as claimed): "Insufficient History" is reported exactly when the
\* series has fewer than 50 rows.
C3_InsufficientBelow50 ==
    (AfterTrend /\ ValidStock) =>
        ((trend = "NEUTRAL" /\ trend_desc = "Insufficient History")
            <=> NumRows < SMA_FAST)

\* C4 (as claimed): whenever the comparison logic runs, it reads the real
\* 200-period average if the series has 200 rows or more, and sma50 in its
\* place only if it has fewer.
C4_SlowAverageWhenDefined ==
    (AfterTrend /\ ValidStock /\ trend_desc # "Insufficient History") =>
        /\ sma_50 = Frac(Sum50, SMA_FAST)
        /\ NumRows >= SMA_SLOW => sma_200 = Frac(Sum200, SMA_SLOW)
        /\ NumRows < SMA_SLOW => sma_200 = sma_50

\* C5 (as claimed): without an analyst target every forward figure is None.
C5_NoTargetNoForecast ==
    (AfterTimeMachine /\ ValidStock /\ AnalystTarget = None) =>
        /\ \A h \in Horizons : future[h] = None
        /\ Returned => \A h \in Horizons : result.time_machine.Future[h] = None

\* C6 (as claimed): the backward multiple of horizon N is None when the
\* series has N rows or fewer, else the last close over the close N rows
\* before the last one.
C6_BackwardMultiple ==
    (Returned /\ ValidStock) =>
        \A h \in Horizons :
            result.time_machine.Past[h] =
                IF NumRows <= HorizonDays(h) THEN None
                ELSE Frac(LastClose, At(Stock.Close, NumRows - HorizonDays(h)))

\* A benchmark whose price never changes: its returns have zero variance.
ConstantBenchmark ==
    /\ Market.Close # <<>>
    /\ \A i \in 1 .. Len(Market.Close) : Market.Close[i][2] = Market.Close[1][2]

\* C7 (as claimed): with a zero-variance benchmark (two returns or more, all
\* of them 0) beta is the 1.0 fallback, and the call does not raise.
C7_FlatBenchmarkBetaOne ==
    (AfterRisk /\ ValidStock /\ ConstantBenchmark
        /\ NumReturns(Stock, Market) >= 2) =>
        /\ beta = Num(1, 1)
        /\ Returned => result.metrics.Beta = Num(1, 1)

\* C8 (as claimed): an invalid security series ends the call with
\* InvalidInput: never with a result, never with another exception.
C8_InvalidInputRejected ==
    (Analysed /\ InvalidSeries(Stock)) =>
        /\ result.k # "dict"
        /\ exc \in {"", "InvalidInput"}
        /\ pc \in {"done", "raised", "rendered"} => exc = "InvalidInput"

\* C9 (as claimed): the fundamentals of every result hold all four entries
\* the dashboard reads, "N/A" for each one the metadata lacks.
C9_FundamentalsComplete ==
    (Returned /\ ValidStock) =>
        /\ DashboardKeys \subseteq DOMAIN result.fundamentals
        /\ ~Truthy(Get(data.info, "freeCashflow"))
              => result.fundamentals["Free Cash Flow"] = NA
        /\ ~Truthy(Get(data.info, "debtToEquity"))
              => result.fundamentals["Debt/Equity"] = NA

\* C10: the current price is the last close; with an analyst target t,
\* upside * price = t - price (price # 0) and the target is reported as
\* given; without one the target is the current price and upside is 0.
C10_Valuation ==
    AfterValuation =>
        /\ curr_price = Num(LastClose, 1)
        /\ (AnalystTarget # None /\ LastClose # 0) =>
              /\ target_price = AnalystTarget
              /\ upside.k = "num"
              /\ upside.n * LastClose = (AnalystTarget.n - LastClose) * upside.d
        /\ AnalystTarget = None =>
              /\ target_price = curr_price
              /\ upside = Num(0, 1)
        /\ Returned =>
              /\ result.valuation.CurrentPrice = Num(LastClose, 1)
              /\ result.valuation.TargetPrice = target_price
              /\ result.valuation.Upside = upside

\* A valid series with an analyst target above or below the last close.
C10_Witness ==
    /\ Returned
    /\ LastClose > 0
    /\ AnalystTarget # None
    /\ result.valuation.Upside.n # 0
    /\ result.valuation.TargetPrice # result.valuation.CurrentPrice

----------------------------------------------------------------------------
\* The dates of a frame, and the dates the two series share.
Dates(df) == df.first .. (df.first + DfLen(df) - 1)
CommonDates == Dates(Stock) \cap Dates(Market)

\* C11: when the join of the two series leaves no return (no common date, or
\* a single one), beta is 1.0 and volatility 0.20, the CAPM expected return
\* is the market return 0.10, and the call returns its result.
C11_NoReturnsDefaults ==
    (AfterRisk /\ Cardinality(CommonDates) <= 1) =>
        /\ beta = Num(1, 1)
        /\ volatility = Num(1, 5)
        /\ expected_return = Num(1, 10)
        /\ ValidStock => exc # "IndexError"
        /\ Returned =>
              /\ result.metrics.Beta = Num(1, 1)
              /\ result.metrics.Volatility = Text("pct1", Num(20, 1))
              /\ result.metrics.ExpectedReturn = Text("pct1", Num(10, 1))

\* A series of several closes whose benchmark shares one date with it, or none.
C11_Witness ==
    /\ Returned
    /\ ValidStock
    /\ NumRows > 2
    /\ DfLen(Market) > 2
    /\ Cardinality(CommonDates) <= 1
    /\ result.metrics.Beta = Num(1, 1)

----------------------------------------------------------------------------
RECURSIVE IntPow(_, _)
IntPow(b, e) == IF e = 0 THEN 1 ELSE b * IntPow(b, e - 1)

\* r is the e-th root of the positive number g: a number whose e-th power is
\* g, or the root of g left unevaluated.
IsRootOf(r, e, g) ==
    \/ r.k = "num" /\ r.n > 0 /\ IntPow(r.n, e) * g.d = g.n * IntPow(r.d, e)
    \/ r.k = (IF e = 2 THEN "sqrt" ELSE "root12") /\ r.n * g.d = g.n * r.d

\* 1 + upside, and the fifth power of a number.
Growth == Add(Num(1, 1), upside)
Fifth(x) == Frac(IntPow(x.n, 5), IntPow(x.d, 5))

\* C12: with an analyst target, the forward multiple at t years is
\* (1 + upside)^t for t = 1/12, 1/2 and 1, uncapped, and the 5-year multiple
\* is (1 + min(upside, 0.50))^5: upside 1.0 gives 2.0 at one year, upside 2.0
\* gives 1.5^5 = 7.59375 at five years, and an upside of at most 0.50 gives
\* (1 + upside)^5.
C12_ForwardMultiples ==
    (AfterTimeMachine /\ ValidStock /\ Truthy(AnalystTarget)) =>
        /\ IsRootOf(future["1 Month"], 12, Growth)
        /\ IsRootOf(future["6 Months"], 2, Growth)
        /\ future["1 Year"] = Growth
        /\ 2 * upside.n > upside.d => future["5 Years"] = Frac(243, 32)
        /\ 2 * upside.n <= upside.d => future["5 Years"] = Fifth(Growth)
        /\ upside = Num(1, 1) => future["1 Year"] = Num(2, 1)
        /\ upside = Num(2, 1) => future["5 Years"] = Frac(759375, 100000)

\* A target three times the price: upside 2.0, the 5-year figure capped.
C12_Witness ==
    /\ Returned
    /\ ValidStock
    /\ Truthy(AnalystTarget)
    /\ upside = Num(2, 1)
    /\ result.time_machine.Future["1 Year"] = Num(3, 1)
    /\ result.time_machine.Future["5 Years"] = Frac(759375, 100000)

----------------------------------------------------------------------------
\* C13: an analysis call on a well-formed series leaves its inputs unchanged
\* (the two series and the metadata record keep the columns and values they
\* had), and the result it returns shares no mutable state with them.
C13_InputsUnchanged ==
    [][ValidStock =>
          /\ data' = data
          /\ result'.k = "dict" => result'.history.ref # "stock_history"]_vars

----------------------------------------------------------------------------
\* C14: two successive calls on the same bundle, the second receiving the
\* bundle as the first left it, return identical metrics, valuation (with
\* the verdict), time-machine and fundamentals values; a call with no data
\* returns None both times.
C14_Deterministic ==
    (pc \in {"done", "rendered"} /\ previous # Unset) =>
        /\ result.k = previous.k
        /\ result.k = "dict" =>
              /\ result.metrics = previous.metrics
              /\ result.valuation = previous.valuation
              /\ result.time_machine = previous.time_machine
              /\ result.fundamentals = previous.fundamentals

\* A second call has returned on a series long enough for a real trend,
\* whose frame the first call had extended with the two average columns.
C14_Witness ==
    /\ pc = "done"
    /\ previous # Unset
    /\ ValidStock
    /\ NumRows > SMA_SLOW
    /\ "SMA_50" \in Stock.cols
    /\ result.k = "dict"
    /\ result.metrics.Signal \in {"BULLISH", "BEARISH"}
    /\ result.metrics = previous.metrics

----------------------------------------------------------------------------
\* vol < a / b, for a volatility that is a number or the square root of one.
VolBelow(vol, a, b) ==
    IF vol.k = "sqrt" THEN vol.n * b * b < a * a * vol.d
    ELSE vol.k = "num" /\ vol.n * b < a * vol.d

\* The allocation the sizing table gives a volatility.
SizeFor(vol) ==
    IF VolBelow(vol, 20, 100) THEN "High (5-7%)"
    ELSE IF VolBelow(vol, 40, 100) THEN "Medium (3-5%)"
    ELSE IF VolBelow(vol, 60, 100) THEN "Low (1-2%)"
    ELSE "Speculative (<1%)"

\* C15: the result carries a position-sizing hint keyed only on annualized
\* volatility, with strict upper bounds: below 0.20 High (5-7%), below 0.40
\* Medium (3-5%), below 0.60 Low (1-2%), from 0.60 on Speculative (<1%); so
\* 0.20 itself is Medium, 0.40 Low and 0.60 Speculative.
C15_SizingHint ==
    (Returned /\ ValidStock) =>
        /\ "Allocation" \in DOMAIN result.valuation
        /\ result.valuation.Allocation = SizeFor(volatility)
        /\ volatility = Num(1, 5) => result.valuation.Allocation = "Medium (3-5%)"

----------------------------------------------------------------------------
\* The stock price history cannot be obtained: the ticker lookup or a history
\* request raises, or the 5-year and the 1-year history are both empty.
HistoryUnobtainable ==
    \/ provider.lookup = "raise"
    \/ provider.history5y = "raise"
    \/ provider.history5y = "empty" /\ provider.history1y \in {"raise", "empty"}

BenchmarkFails == "raise" \in {provider.spy_lookup, provider.spy_history}
StatementsFail ==
    "raise" \in {provider.balance_sheet, provider.cashflow, provider.financials}
InfoFails == provider.info = "raise"

\* Close = 1.0 on every date of the stock series.
FlatOn(market_df, stock_df) ==
    /\ market_df.first = stock_df.first
    /\ DfLen(market_df) = DfLen(stock_df)
    /\ \A i \in 1 .. Len(market_df.Close) : market_df.Close[i][2] = 1

FetchReturned == fetch.pc = "returned"

\* C16: get_raw_data propagates no exception and returns None exactly when
\* the stock price history cannot be obtained, the 1-year history being
\* requested only after an empty 5-year one; a failing benchmark, statement
\* or info request leaves the bundle returned, with a flat Close = 1.0
\* benchmark on the stock's dates, empty statement tables, or an info record
\* holding only the symbol.
C16_FetchNeverRaises ==
    /\ fetch.exc = ""
    /\ "1y" \in fetch.requests => provider.history5y = "empty"
    /\ FetchReturned =>
          /\ fetch.ret = NoData <=> HistoryUnobtainable
          /\ fetch.ret # NoData =>
                /\ fetch.ret.k = "bundle"
                /\ ~Empty(fetch.ret.stock_history)
                /\ BenchmarkFails =>
                      FlatOn(fetch.ret.market_history, fetch.ret.stock_history)
                /\ StatementsFail =>
                      /\ fetch.ret.balance_sheet.rows = 0
                      /\ fetch.ret.cash_flow.rows = 0
                      /\ fetch.ret.income_stmt.rows = 0
                /\ InfoFails =>
                      /\ DOMAIN fetch.ret.info = {"symbol"}
                      /\ fetch.ret.info.symbol = Sanitize(provider.ticker)

\* The 5-year history is empty and the 1-year one is not, while the
\* benchmark, one statement and the info request all fail: a bundle comes
\* back all the same.
C16_Witness ==
    /\ FetchReturned
    /\ provider.history5y = "empty"
    /\ "1y" \in fetch.requests
    /\ BenchmarkFails /\ InfoFails
    /\ provider.balance_sheet = "table" /\ provider.cashflow = "raise"
    /\ fetch.ret # NoData
    /\ FlatOn(fetch.ret.market_history, fetch.ret.stock_history)

----------------------------------------------------------------------------
ActionVerdicts ==
    {"LONG (BUY)", "SHORT (SELL)", "EXIT / CAUTION", "WATCH FOR ENTRY"}

====
